---- MODULE Spec2Model ----
(***************************************************************************)
(* Face-detection presentation pipeline of src/face_detection_yolov12.py   *)
(* (the same logic is duplicated in src/face_detection_yolov8.py):         *)
(*   - the detector wrappers detect_faces / detect_faces_optimized,        *)
(*   - the webcam session WebcamFaceDetectionGUI (constructor,             *)
(*     update_frame, on_quit),                                             *)
(*   - the detection cache read/write of update_frame.                     *)
(* and the Flask application of src/web_app.py.                            *)
(* The specifications of the module:                                       *)
(*   Spec        the webcam session driven by scheduler ticks and quits    *)
(*   SpecDetect  one call of a detector wrapper on bounded inputs          *)
(*   SpecCache   the cache write (line 221) and read (line 228) of         *)
(*               update_frame applied in any order                         *)
(*   SpecTrip    a source box resized to inference space and rescaled      *)
(*               back by detect_faces_optimized                            *)
(*   SpecDraw    one drawing call (draw_faces, or the drawing part of      *)
(*               update_frame) on the store of image arrays                *)
(*   SpecWeb     one HTTP request routed and answered by the Flask app     *)
(*   SpecVideo   one call of detect_from_video, frame by frame             *)
(*   SpecServer  two request threads of the Flask server running           *)
(*               get_detector calls and upload requests, interleaved       *)
(***************************************************************************)
EXTENDS Integers, Sequences, FiniteSets, TLC

VARIABLES
    \* ---- WebcamFaceDetectionGUI fields (lines 143-156) ----
    pc,             \* "init": fields assigned; "constructed": __init__ returned
    skip_frames, detector, cap, root, running,
    frame_count, detection_count, fps, detection_fps,
    last_time, last_detection_time, current_detections,
    \* ---- environment of the session ----
    now,            \* the wall clock read by time.time(), in clock units
    scheduled,      \* a root.after(1, update_frame) callback is pending
    exc,            \* exception that left the last handler, "none" if none
    capReleases,    \* number of cap.release() calls made so far
    destroyCalls,   \* number of root.destroy() calls made so far
    quitCalls,      \* number of on_quit calls made so far
    \* ---- history of the session, for stating the properties ----
    framesRead,     \* number of successful cap.read() so far
    detectedAt,     \* session indices of the frames given to the detector
    tickKind,       \* what the last update_frame did
    drawn,          \* the detections the last tick rendered
    detFailed,      \* the last detect tick's detector call failed inside
    prevCache,      \* current_detections just before the last detect tick
    storedByDetect, \* what the last detect tick's detector call returned
    \* ---- one call of a detector wrapper (SpecDetect) ----
    dPc, dFn, dWidth, dMaxWidth, dOutcome, dOut,
    \* ---- the detection cache on its own (SpecCache) ----
    cPc, cCache, cGot, cErr, cReadUnset,
    \* ---- a source box sent to inference space and back (SpecTrip) ----
    tPc, tWidth, tBox, tBack,
    \* ---- one drawing call on the image store (SpecDraw) ----
    gPc, gFn,       \* position of the call, and the function called
    gHeap,          \* the arrays that exist: sequence of [w, h, marks]
    gImage,         \* index in gHeap of the array passed in
    gBefore,        \* what that array held when the call started
    gDets, gShow,   \* detections and show_confidence passed in
    gText,          \* what cv2.getTextSize returns for each label
    gResult,        \* index in gHeap of the array returned or displayed
    \* ---- one HTTP request to the Flask app of web_app.py (SpecWeb) ----
    wPc,            \* "ready": request received; "done": response sent
    wReq,           \* [method, path]; path is the URL path split at "/"
    wDisk,          \* what the file a route names is on disk
    wResp,          \* [status, body]
    \* ---- one call of detect_from_video (SpecVideo) ----
    vPc,            \* "init", "loop", "returned", "raised"
    vOutput,        \* an output_path was given
    vCap,           \* the cv2.VideoCapture: "None", "unopened", "opened", "released"
    vWriter,        \* the cv2.VideoWriter: "None", "open", "released"
    vAttempts,      \* cap.read() calls made
    vRead,          \* cap.read() calls that returned a frame
    vDetected,      \* source indices of the frames given to detect_faces, in order
    vWritten,       \* [frame, faces] of the frames given to writer.write, in order
    vCapReleases,   \* cap.release() calls made
    vWriterReleases, \* writer.release() calls made
    \* ---- the request threads of the Flask server (SpecServer) ----
    detector_cache, \* detector_cache: key -> instance, 0 where there is no key
    th,             \* per thread: the call it runs and where it stands
    calls,          \* calls and requests started so far
    loads,          \* per key: detectors get_detector has constructed
    returnedFor,    \* per key: instances get_detector calls have returned
    uploads,        \* files written to UPLOAD_FOLDER
    invoked,        \* detect_faces / detect_faces_optimized calls made
    videoRuns       \* detect_from_video calls made

sessionVars == <<pc, skip_frames, detector, cap, root, running, frame_count,
                 detection_count, fps, detection_fps, last_time,
                 last_detection_time, current_detections, now, scheduled, exc,
                 capReleases, destroyCalls, quitCalls, framesRead, detectedAt,
                 tickKind, drawn, detFailed, prevCache, storedByDetect>>
detectVars == <<dPc, dFn, dWidth, dMaxWidth, dOutcome, dOut>>
cacheVars == <<cPc, cCache, cGot, cErr, cReadUnset>>
tripVars == <<tPc, tWidth, tBox, tBack>>
drawVars == <<gPc, gFn, gHeap, gImage, gBefore, gDets, gShow, gText, gResult>>
webVars == <<wPc, wReq, wDisk, wResp>>
videoVars == <<vPc, vOutput, vCap, vWriter, vAttempts, vRead, vDetected,
               vWritten, vCapReleases, vWriterReleases>>
serverVars == <<detector_cache, th, calls, loads, returnedFor, uploads, invoked,
                videoRuns>>
extraVars == <<tripVars, drawVars, webVars, videoVars, serverVars>>
vars == <<sessionVars, detectVars, cacheVars, extraVars>>

(***************************************************************************)
(* Bounds of the model.                                                    *)
(***************************************************************************)
MaxBoxes == 2        \* boxes in one detector result
MaxFrames == 4       \* successful reads in one session
MaxTime == 4         \* last clock value
MaxSkip == 3         \* largest skip_frames
MaxQuit == 2         \* on_quit calls in one session
MaxCoord == 24       \* largest source coordinate sent through the round trip
MaxSegments == 3     \* segments in a request path
MaxVideoFrames == 4  \* frames a video file yields
MaxCalls == 3        \* calls and requests the server threads start
TicksPerSecond == 2  \* clock units in one second

\* Python values of current_detections: None, or a list of detections
None == [none |-> TRUE]
List(items) == [none |-> FALSE, items |-> items]
\* bool(v) of such a value: None and the empty list are falsy
Truthy(v) == (~v.none) /\ Len(v.items) > 0

\* A result box is [ok, x1, y1, x2, y2, conf]; one whose xyxy / conf access
\* raises is Malformed
Malformed == [ok |-> FALSE]
RawBox(x1, y1, x2, y2, conf) ==
    [ok |-> TRUE, x1 |-> x1, y1 |-> y1, x2 |-> x2, y2 |-> y2, conf |-> conf]

Min(a, b) == IF a < b THEN a ELSE b

RECURSIVE Pow2(_)
Pow2(n) == IF n <= 0 THEN 1 ELSE 2 * Pow2(n - 1)

\* Python's int() of a quotient num/den (den > 0): truncation toward zero.
TruncQuot(num, den) ==
    IF num >= 0 THEN num \div den ELSE 0 - ((0 - num) \div den)

\* Python's a % b for b # 0: the result has the sign of b.
PyMod(a, b) == IF b > 0 THEN a % b ELSE 0 - ((0 - a) % (0 - b))

(***************************************************************************)
(* The rescale step int(c / scale), scale = max_width / width (lines 72,   *)
(* 86-92).  Both divisions are IEEE-754 double divisions, so the step is   *)
(* computed here as the doubles compute it, with small integers only:      *)
(*   scale is the 53-bit rounding of max_width/width.  With t the exponent *)
(*   that brings max_width/width into [1,2) and k = 52 + t, long division  *)
(*   gives the remainder r of max_width * 2^k by width and the last        *)
(*   quotient bit; scale is rounded up (round-to-nearest-even) exactly     *)
(*   when 2r > width, or 2r = width and that bit is 1, and then exceeds    *)
(*   max_width/width by the factor 1 + rho / (max_width * 2^k),            *)
(*   rho = width - r.                                                      *)
(*   c / scale: when c*width/max_width is not an integer it is at least    *)
(*   1/max_width away from one, far more than the rounding error, and      *)
(*   int() yields its floor.  When it is an integer n, a scale rounded     *)
(*   down or exact gives a quotient >= n, hence n; a scale rounded up      *)
(*   gives a quotient below n, which rounds to the double before n, hence  *)
(*   n - 1 after int(), exactly when it lies below the midpoint            *)
(*   n - 2^(j-53), 2^j < n <= 2^(j+1): that is 2*n*rho > max_width*2^(t+j).*)
(***************************************************************************)
RECURSIVE ScaleExp(_, _, _)
ScaleExp(mw, w, t) == IF Pow2(t) * mw >= w THEN t ELSE ScaleExp(mw, w, t + 1)

\* <<remainder, last quotient bit>> of r * 2^steps divided by w
RECURSIVE LongDiv(_, _, _, _)
LongDiv(r, w, steps, bit) ==
    IF steps = 0 THEN <<r, bit>>
    ELSE IF 2 * r >= w THEN LongDiv(2 * r - w, w, steps - 1, 1)
         ELSE LongDiv(2 * r, w, steps - 1, 0)

\* 0 when the double max_width/width is exact or rounded down, else rho
ScaleExcess(mw, w) ==
    LET d == LongDiv(mw % w, w, 52 + ScaleExp(mw, w, 1), 0)
        r == d[1]
        up == (2 * r > w) \/ (2 * r = w /\ d[2] = 1)
    IN  IF up THEN w - r ELSE 0

RECURSIVE BinadeExp(_, _)
BinadeExp(n, j) == IF Pow2(j + 1) >= n THEN j ELSE BinadeExp(n, j + 1)

\* the rescale step multiplying by scale instead of dividing
RescaleAbs_Multiplies(a, mw, w) == (a * mw) \div w

\* int(a / scale) for a >= 0, width > max_width > 0
RescaleAbs(a, mw, w) ==
    IF (a * w) % mw # 0 \/ a = 0 THEN (a * w) \div mw
    ELSE LET n == (a * w) \div mw
             rho == ScaleExcess(mw, w)
             tj == ScaleExp(mw, w, 1) + BinadeExp(n, 0 - 1)
         IN  IF rho > 0 /\ 2 * n * rho > mw * Pow2(tj) THEN n - 1 ELSE n

RescaleCoord(c, max_width, width) ==
    IF c >= 0 THEN RescaleAbs(c, max_width, width)
    ELSE 0 - RescaleAbs(0 - c, max_width, width)

(***************************************************************************)
(* The detector wrappers (lines 40-109).  The external model call is given *)
(* by its outcome: it raises, or yields a sequence of result boxes, each a *)
(* RawBox (coordinates after map(int, ...)) or Malformed.                  *)
(***************************************************************************)
MakeDetection(x1, y1, x2, y2, conf) ==
    [x1 |-> x1, y1 |-> y1, x2 |-> x2, y2 |-> y2, confidence |-> conf,
     w |-> x2 - x1, h |-> y2 - y1,
     cx |-> (x1 + x2) \div 2, cy |-> (y1 + y2) \div 2]

\* a conversion that derives w, h, cx, cy from the raw coordinates and
\* rescales x1, y1, x2, y2 afterwards
ConvertBox_DerivedBeforeRescale(b, max_width, width) ==
    IF width > max_width
    THEN [MakeDetection(b.x1, b.y1, b.x2, b.y2, b.conf)
            EXCEPT !.x1 = RescaleCoord(b.x1, max_width, width),
                   !.y1 = RescaleCoord(b.y1, max_width, width),
                   !.x2 = RescaleCoord(b.x2, max_width, width),
                   !.y2 = RescaleCoord(b.y2, max_width, width)]
    ELSE MakeDetection(b.x1, b.y1, b.x2, b.y2, b.conf)

\* lines 83-106 for one box: scale < 1.0 exactly when width > max_width
ConvertBox(b, max_width, width) ==
    IF width > max_width
    THEN MakeDetection(RescaleCoord(b.x1, max_width, width),
                       RescaleCoord(b.y1, max_width, width),
                       RescaleCoord(b.x2, max_width, width),
                       RescaleCoord(b.y2, max_width, width), b.conf)
    ELSE MakeDetection(b.x1, b.y1, b.x2, b.y2, b.conf)

\* the for loop over result.boxes: the first malformed box raises, and the
\* handler of line 107 leaves in `detections` what was appended before it
RECURSIVE ConvertLoop(_, _, _, _, _)
ConvertLoop(boxes, i, max_width, width, acc) ==
    IF i > Len(boxes) THEN acc
    ELSE IF ~boxes[i].ok THEN acc
    ELSE ConvertLoop(boxes, i + 1, max_width, width,
                     Append(acc, ConvertBox(boxes[i], max_width, width)))

OutcomeFails(outcome) ==
    outcome.raises \/ \E i \in 1..Len(outcome.boxes) : ~outcome.boxes[i].ok

\* detect_faces_optimized: [ret: the list returned, exc: an exception left
\* the call, logged: "Detection error" was printed, invoked: self.yolo was
\* called].  No test of width stands between the shape read and the call.
DetectFacesOptimized(width, max_width, outcome) ==
    [ret |-> IF outcome.raises THEN <<>>
             ELSE ConvertLoop(outcome.boxes, 1, max_width, width, <<>>),
     exc |-> FALSE,
     logged |-> OutcomeFails(outcome),
     invoked |-> TRUE]

\* detect_faces: the same loop with no resize and no rescale
DetectFaces(width, outcome) ==
    [ret |-> IF outcome.raises THEN <<>>
             ELSE ConvertLoop(outcome.boxes, 1, width, width, <<>>),
     exc |-> FALSE,
     logged |-> OutcomeFails(outcome),
     invoked |-> TRUE]

(***************************************************************************)
(* SpecDetect: one call of detect_faces or detect_faces_optimized on an    *)
(* image of width dWidth whose model call has outcome dOutcome.            *)
(***************************************************************************)
InferenceWidth == 640      \* max_width=640, inference_width=640

\* 0: an array with no columns (shape (h, 0, 3))
FrameWidths == {0, 320, 640, 848, 1280}

RawBoxes == {RawBox(100, 100, 200, 200, 90),
             RawBox(40, 80, 160, 201, 75),
             RawBox(0 - 3, 0, 7, 9, 50),
             RawBox(41, 80, 41, 81, 60)}

RECURSIVE SeqsUpTo(_, _)
SeqsUpTo(S, n) ==
    IF n = 0 THEN {<<>>}
    ELSE LET shorter == SeqsUpTo(S, n - 1)
         IN  shorter \cup {Append(q, x) : q \in shorter, x \in S}

\* what the model call self.yolo(...) can do
Outcomes ==
    {[raises |-> TRUE, boxes |-> <<>>]}
    \cup {[raises |-> FALSE, boxes |-> q] :
              q \in SeqsUpTo(RawBoxes \cup {Malformed}, MaxBoxes)}

sessionIdle ==
    /\ pc = "idle" /\ skip_frames = 1 /\ detector = "None" /\ cap = "None" /\ root = "None"
    /\ running = FALSE /\ frame_count = 0 /\ detection_count = 0
    /\ fps = <<0, 1>> /\ detection_fps = <<0, 1>>
    /\ last_time = 0 /\ last_detection_time = 0
    /\ current_detections = None
    /\ now = 0 /\ scheduled = FALSE /\ exc = "none"
    /\ capReleases = 0 /\ destroyCalls = 0 /\ quitCalls = 0
    /\ framesRead = 0 /\ detectedAt = {} /\ tickKind = "none"
    /\ drawn = <<>> /\ detFailed = FALSE /\ prevCache = None
    /\ storedByDetect = None

detectIdle ==
    /\ dPc = "idle" /\ dFn = "none" /\ dWidth = 0 /\ dMaxWidth = 0
    /\ dOutcome = [raises |-> FALSE, boxes |-> <<>>]
    /\ dOut = [ret |-> <<>>, exc |-> FALSE, logged |-> FALSE, invoked |-> FALSE]

cacheIdle ==
    /\ cPc = "idle" /\ cCache = None /\ cGot = None /\ cErr = "none"
    /\ cReadUnset = FALSE

tripIdle ==
    /\ tPc = "idle" /\ tWidth = 0 /\ tBox = <<0, 0, 0, 0>> /\ tBack = <<>>

drawIdle ==
    /\ gPc = "idle" /\ gFn = "none" /\ gHeap = <<>> /\ gImage = 0
    /\ gBefore = <<>> /\ gDets = <<>> /\ gShow = FALSE /\ gText = <<>>
    /\ gResult = 0

NoResponse == [status |-> 0, body |-> "none"]

webIdle ==
    /\ wPc = "idle" /\ wReq = [method |-> "none", path |-> <<>>]
    /\ wDisk = "missing" /\ wResp = NoResponse

videoIdle ==
    /\ vPc = "idle" /\ vOutput = FALSE /\ vCap = "None" /\ vWriter = "None"
    /\ vAttempts = 0 /\ vRead = 0 /\ vDetected = <<>> /\ vWritten = <<>>
    /\ vCapReleases = 0 /\ vWriterReleases = 0

serverIdle ==
    /\ detector_cache = <<>> /\ th = <<>> /\ calls = 0 /\ loads = <<>>
    /\ returnedFor = <<>> /\ uploads = {} /\ invoked = 0 /\ videoRuns = 0

extraIdle == tripIdle /\ drawIdle /\ webIdle /\ videoIdle /\ serverIdle

InitDetect ==
    /\ sessionIdle /\ cacheIdle /\ extraIdle
    /\ dPc = "ready" /\ dFn = "none"
    /\ dWidth \in FrameWidths
    /\ dMaxWidth = InferenceWidth
    /\ dOutcome \in Outcomes
    /\ dOut = [ret |-> <<>>, exc |-> FALSE, logged |-> FALSE, invoked |-> FALSE]

CallDetectFaces ==
    /\ dPc = "ready"
    /\ dPc' = "done" /\ dFn' = "detect_faces"
    /\ dOut' = DetectFaces(dWidth, dOutcome)
    /\ UNCHANGED <<dWidth, dMaxWidth, dOutcome, sessionVars, cacheVars, extraVars>>

CallDetectFacesOptimized ==
    /\ dPc = "ready"
    /\ dPc' = "done" /\ dFn' = "detect_faces_optimized"
    /\ dOut' = DetectFacesOptimized(dWidth, dMaxWidth, dOutcome)
    /\ UNCHANGED <<dWidth, dMaxWidth, dOutcome, sessionVars, cacheVars, extraVars>>

NextDetect == CallDetectFaces \/ CallDetectFacesOptimized

SpecDetect == InitDetect /\ [][NextDetect]_vars

\* C6: any internal failure of a detection call (the model call raises, or a
\* result box is malformed) is returned as an empty list and never raised;
\* boxes converted before the failure are not returned.
C6_FailureYieldsEmpty ==
    (dPc = "done" /\ OutcomeFails(dOutcome))
        => (dOut.ret = <<>> /\ ~dOut.exc)

\* the mapping C10 states, in exact arithmetic
ExactRescale(c, max_width, width) ==
    IF width > max_width THEN TruncQuot(c * width, max_width) ELSE c

\* C10: detect_faces_optimized returns each raw coordinate c as c / scale
\* truncated toward zero, scale = max_width / width, when width > max_width,
\* and unchanged otherwise (so (100,100,200,200) at width 1280, max_width 640
\* is returned as (200,200,400,400)).
C10_RescaleIsTruncatedQuotient ==
    (dPc = "done" /\ dFn = "detect_faces_optimized" /\ ~OutcomeFails(dOutcome))
        => /\ Len(dOut.ret) = Len(dOutcome.boxes)
           /\ \A i \in 1..Len(dOut.ret) :
                /\ dOut.ret[i].x1 = ExactRescale(dOutcome.boxes[i].x1, dMaxWidth, dWidth)
                /\ dOut.ret[i].y1 = ExactRescale(dOutcome.boxes[i].y1, dMaxWidth, dWidth)
                /\ dOut.ret[i].x2 = ExactRescale(dOutcome.boxes[i].x2, dMaxWidth, dWidth)
                /\ dOut.ret[i].y2 = ExactRescale(dOutcome.boxes[i].y2, dMaxWidth, dWidth)

\* C12: detect_faces_optimized rejects a frame of width <= 0: the call ends
\* in an error (InvalidFrameError) given to the caller, and self.yolo is not
\* called on the frame.
C12_DegenerateFrameRejected ==
    (dPc = "done" /\ dFn = "detect_faces_optimized" /\ dWidth <= 0)
        => (dOut.exc /\ ~dOut.invoked)

\* C22: every record detect_faces or detect_faces_optimized returns has
\* w = x2 - x1, h = y2 - y1, cx = (x1 + x2) div 2, cy = (y1 + y2) div 2 on
\* its final coordinates, rescaled or not; and a raw box with x2 >= x1 and
\* y2 >= y1 is returned with x2 >= x1 and y2 >= y1.
C22_DerivedFieldsFollowCoordinates ==
    dPc = "done"
        => /\ Len(dOut.ret) <= Len(dOutcome.boxes)
           /\ \A i \in 1..Len(dOut.ret) :
                LET d == dOut.ret[i]
                    raw == dOutcome.boxes[i]
                IN  /\ d.w = d.x2 - d.x1
                    /\ d.h = d.y2 - d.y1
                    /\ d.cx = (d.x1 + d.x2) \div 2
                    /\ d.cy = (d.y1 + d.y2) \div 2
                    /\ raw.x2 >= raw.x1 => d.x2 >= d.x1
                    /\ raw.y2 >= raw.y1 => d.y2 >= d.y1

\* two boxes came back rescaled from a frame wider than max_width
C22_Witness ==
    /\ dPc = "done" /\ dFn = "detect_faces_optimized" /\ dWidth = 848
    /\ Len(dOut.ret) = 2
    /\ dOut.ret[1].x1 # dOutcome.boxes[1].x1
    /\ dOut.ret[2].w # dOutcome.boxes[2].x2 - dOutcome.boxes[2].x1

(***************************************************************************)
(* Spec: one webcam session (WebcamFaceDetectionGUI).  The constructor     *)
(* runs the first update_frame itself; each later update_frame is the      *)
(* root.after(1, ...) callback the previous one scheduled.  Time is read   *)
(* from the clock `now`; successive time.time() calls may return growing   *)
(* values.                                                                 *)
(***************************************************************************)
SkipValues == {0 - 2, 0} \cup (1..MaxSkip)

LoopWidths == {640, 1280}

LoopOutcomes ==
    {[raises |-> TRUE, boxes |-> <<>>],
     [raises |-> FALSE, boxes |-> <<>>],
     [raises |-> FALSE, boxes |-> <<RawBox(100, 100, 200, 200, 90)>>],
     [raises |-> FALSE, boxes |-> <<RawBox(100, 100, 200, 200, 90), Malformed>>]}

\* the detector calls a tick can make: a frame width, the model call's
\* outcome, and what detect_faces_optimized (lines 218-220) returns for them
LoopCalls ==
    {[outcome |-> o, res |-> DetectFacesOptimized(wd, InferenceWidth, o)] :
         wd \in LoopWidths, o \in LoopOutcomes}

\* values a later time.time() call can return after one that returned t
Later(t) == t .. Min(t + 1, MaxTime)

\* a decision that detects one frame too rarely
ShouldDetect_OffByOne(count, skip) == PyMod(count, skip + 1) = 0

\* line 216
ShouldDetect(count, skip) == PyMod(count, skip) = 0

\* line 228 without its guard: the cached value as it is
CacheGet_Unguarded(cd) == cd

\* line 228 forgetting the cache: always the empty list
CacheGet_Forget(cd) == List(<<>>)

\* line 228: self.current_detections if self.current_detections else []
CacheGet(cd) == IF Truthy(cd) THEN cd ELSE List(<<>>)

\* a detection meter that reports the render meter's count
DetectionMeter_SharedCount(count, last, rate, t1, t2, t3) ==
    IF t1 - last >= TicksPerSecond
    THEN [rate |-> <<frame_count + 1, t2 - last>>, count |-> 0, last |-> t3]
    ELSE [rate |-> rate, count |-> count, last |-> last]

\* lines 223-226, count already incremented by line 222; the three
\* time.time() calls return t1, t2, t3.  A rate is <<events, clock units>>.
DetectionMeter(count, last, rate, t1, t2, t3) ==
    IF t1 - last >= TicksPerSecond
    THEN [rate |-> <<count, t2 - last>>, count |-> 0, last |-> t3]
    ELSE [rate |-> rate, count |-> count, last |-> last]

\* a render meter that reports a running estimate inside the window
RenderMeter_PartialEstimate(count, last, rate, t1, t2, t3) ==
    IF t1 - last >= TicksPerSecond
    THEN [rate |-> <<count, t2 - last>>, count |-> 0, last |-> t3]
    ELSE [rate |-> <<count, IF t1 > last THEN t1 - last ELSE 1>>,
          count |-> count, last |-> last]

\* lines 246-249, count already incremented by line 245
RenderMeter(count, last, rate, t1, t2, t3) ==
    IF t1 - last >= TicksPerSecond
    THEN [rate |-> <<count, t2 - last>>, count |-> 0, last |-> t3]
    ELSE [rate |-> rate, count |-> count, last |-> last]

heldByTick == <<frame_count, detection_count, fps, detection_fps, last_time,
                last_detection_time, current_detections, detectedAt, drawn,
                detFailed, prevCache, storedByDetect>>

\* lines 230-267 after the branch: render `detections`, update the render
\* meter from time t on, show the frame, schedule the next tick
RenderAndSchedule(detections, t) ==
    \E t4 \in Later(t) :
      \E t5 \in (IF t4 - last_time >= TicksPerSecond THEN Later(t4) ELSE {t4}) :
        \E t6 \in (IF t4 - last_time >= TicksPerSecond THEN Later(t5) ELSE {t4}) :
          LET rm == RenderMeter(frame_count + 1, last_time, fps, t4, t5, t6)
          IN  /\ drawn' = detections
              /\ frame_count' = rm.count
              /\ fps' = rm.rate
              /\ last_time' = rm.last
              /\ now' = t6
              /\ scheduled' = TRUE
              /\ exc' = "none"

\* lines 217-226: the detect branch on frame number framesRead
DetectBranch(t) ==
    \E call \in LoopCalls :
      \E t1 \in Later(t) :
        \E t2 \in (IF t1 - last_detection_time >= TicksPerSecond
                   THEN Later(t1) ELSE {t1}) :
          \E t3 \in (IF t1 - last_detection_time >= TicksPerSecond
                     THEN Later(t2) ELSE {t1}) :
            LET res == call.res
                dm == DetectionMeter(detection_count + 1, last_detection_time,
                                     detection_fps, t1, t2, t3)
            IN  /\ tickKind' = "detect"
                /\ detectedAt' = detectedAt \cup {framesRead}
                /\ prevCache' = current_detections
                /\ detFailed' = OutcomeFails(call.outcome)
                /\ storedByDetect' = List(res.ret)
                /\ current_detections' = List(res.ret)
                /\ detection_count' = dm.count
                /\ detection_fps' = dm.rate
                /\ last_detection_time' = dm.last
                /\ RenderAndSchedule(res.ret, t3)

\* lines 227-231: the skip branch; `for det in detections` raises
\* TypeError on a value that is not a list
SkipBranch(t) ==
    /\ tickKind' = "skip"
    /\ UNCHANGED <<detectedAt, prevCache, detFailed, storedByDetect,
                   current_detections, detection_count, detection_fps,
                   last_detection_time>>
    /\ IF CacheGet(current_detections).none
       THEN /\ exc' = "TypeError" /\ scheduled' = FALSE /\ now' = t
            /\ UNCHANGED <<drawn, frame_count, fps, last_time>>
       ELSE RenderAndSchedule(CacheGet(current_detections).items, t)

\* update_frame (lines 209-267) entered at time t with self.running = run
UpdateFrame(run, t) ==
    IF ~run
    THEN /\ tickKind' = "notrunning" /\ scheduled' = FALSE /\ exc' = "none"
         /\ now' = t
         /\ UNCHANGED <<heldByTick, framesRead>>
    ELSE \E ret \in BOOLEAN :
           IF ~ret
           THEN /\ tickKind' = "readfail" /\ scheduled' = FALSE
                /\ exc' = "none" /\ now' = t
                /\ UNCHANGED <<heldByTick, framesRead>>
           ELSE /\ framesRead < MaxFrames
                /\ framesRead' = framesRead + 1
                /\ IF skip_frames = 0
                   THEN /\ tickKind' = "raised" /\ scheduled' = FALSE
                        /\ exc' = "ZeroDivisionError" /\ now' = t
                        /\ UNCHANGED heldByTick
                   ELSE IF ShouldDetect(frame_count, skip_frames)
                        THEN DetectBranch(t)
                        ELSE SkipBranch(t)

Init ==
    /\ detectIdle /\ cacheIdle /\ extraIdle
    /\ pc = "init"
    /\ skip_frames \in SkipValues
    /\ detector = "None" /\ cap = "None" /\ root = "None"
    /\ running = FALSE
    /\ frame_count = 0 /\ detection_count = 0
    /\ fps = <<0, 1>> /\ detection_fps = <<0, 1>>
    /\ now = 0 /\ last_time = 0 /\ last_detection_time = 0
    /\ current_detections = None
    /\ scheduled = FALSE /\ exc = "none"
    /\ capReleases = 0 /\ destroyCalls = 0 /\ quitCalls = 0
    /\ framesRead = 0 /\ detectedAt = {} /\ tickKind = "none"
    /\ drawn = <<>> /\ detFailed = FALSE /\ prevCache = None
    /\ storedByDetect = None

\* a constructor that does not test the camera
StartsRunning_IgnoresOpen(loaded, opened) == loaded

\* the constructor reaches `self.running = True` (line 205): neither the
\* return at 162 (detector failed to load) nor the one at 203 (camera not
\* opened) was taken
StartsRunning(loaded, opened) == loaded /\ opened

\* __init__ from line 158 on: load the detector, build the window, open the
\* camera, set running, call update_frame.  Loading takes time.
StartSession ==
    /\ pc = "init"
    /\ pc' = "constructed"
    /\ UNCHANGED <<skip_frames, capReleases, destroyCalls, quitCalls,
                   detectVars, cacheVars, extraVars>>
    /\ \E loaded \in BOOLEAN, opened \in BOOLEAN,
          t \in now .. Min(now + TicksPerSecond, MaxTime) :
         IF ~loaded
         THEN /\ opened
              /\ detector' = "None" /\ root' = "None" /\ cap' = "None"
              /\ running' = FALSE /\ now' = t
              /\ UNCHANGED <<heldByTick, framesRead, tickKind, scheduled, exc>>
         ELSE /\ detector' = "loaded" /\ root' = "alive"
              /\ cap' = IF opened THEN "opened" ELSE "unopened"
              /\ IF ~StartsRunning(loaded, opened)
                 THEN /\ running' = FALSE /\ now' = t
                      /\ UNCHANGED <<heldByTick, framesRead, tickKind,
                                     scheduled, exc>>
                 ELSE /\ running' = TRUE
                      /\ UpdateFrame(TRUE, t)

\* the scheduler fires the pending root.after callback
Tick ==
    /\ pc = "constructed" /\ scheduled /\ root = "alive"
    /\ UpdateFrame(running, now)
    /\ UNCHANGED <<pc, skip_frames, detector, cap, root, running,
                   capReleases, destroyCalls, quitCalls, detectVars, cacheVars, extraVars>>

\* an on_quit that only releases the camera: the running flag stays set and
\* the window, with its pending callback, stays alive
OnQuit_ReleaseOnly ==
    /\ pc = "constructed" /\ quitCalls < MaxQuit
    /\ quitCalls' = quitCalls + 1
    /\ capReleases' = IF cap # "None" THEN capReleases + 1 ELSE capReleases
    /\ cap' = IF cap # "None" THEN "released" ELSE cap
    /\ UNCHANGED <<pc, skip_frames, detector, running, root, destroyCalls,
                   scheduled, exc, now, heldByTick, framesRead, tickKind,
                   detectVars, cacheVars, extraVars>>

\* on_quit (lines 269-274), from the Quit button, the window's close box or
\* a caller.  root.quit() needs self.root; root.destroy() on a destroyed
\* window raises TclError; destroying the window cancels its callbacks.
OnQuit ==
    /\ pc = "constructed" /\ quitCalls < MaxQuit
    /\ quitCalls' = quitCalls + 1
    /\ running' = FALSE
    /\ capReleases' = IF cap # "None" THEN capReleases + 1 ELSE capReleases
    /\ cap' = IF cap # "None" THEN "released" ELSE cap
    /\ IF root = "None"
       THEN /\ exc' = "AttributeError"
            /\ UNCHANGED <<root, destroyCalls, scheduled>>
       ELSE /\ destroyCalls' = destroyCalls + 1
            /\ root' = "destroyed"
            /\ scheduled' = FALSE
            /\ exc' = IF root = "destroyed" THEN "TclError" ELSE "none"
    /\ UNCHANGED <<pc, skip_frames, detector, now, heldByTick, framesRead,
                   tickKind, detectVars, cacheVars, extraVars>>

Next == StartSession \/ Tick \/ OnQuit

Spec == Init /\ [][Next]_vars

\* C1: with skip interval N >= 1, after K successfully read frames the
\* detector has been invoked on exactly the frames 0, N, 2N, ... below K
\* (ceil(K/N) invocations), whatever the timing of the ticks.
C1_DetectOnEveryNthFrame ==
    skip_frames >= 1
        => detectedAt = {i \in 0..(framesRead - 1) : i % skip_frames = 0}

\* C2: after a tick of a running session whose read failed, the loop is
\* still advanced by the scheduler (a later tick is pending).
C2_FailedReadKeepsLoopAlive ==
    (tickKind = "readfail" /\ running /\ root = "alive") => scheduled

\* C3: once the source is exhausted and the loop has no tick left to run,
\* the session is Stopped and the source has been released exactly once,
\* without a user cancellation.
C3_ExhaustionStopsSession ==
    (tickKind = "readfail" /\ ~scheduled /\ quitCalls = 0)
        => (running = FALSE /\ capReleases = 1)

\* C4: over any sequence of on_quit calls the capture is released exactly
\* once, the window destroyed exactly once, and no call fails.
C4_StopIsIdempotent ==
    (quitCalls >= 1 /\ root # "None")
        => (capReleases = 1 /\ destroyCalls = 1 /\ exc # "TclError")

\* C5: a session never runs with skip_frames <= 0, and no tick evaluates
\* the skip decision with such a value.
C5_NonPositiveSkipRejected ==
    (running \/ tickKind \in {"detect", "skip", "raised"}) => skip_frames >= 1

\* C7: when a detect tick's detector call fails after a non-empty set was
\* cached, that tick and the skip ticks after it still draw the cached set.
C7_FailureKeepsCachedDetections ==
    (tickKind \in {"detect", "skip"} /\ detFailed /\ Truthy(prevCache))
        => drawn = prevCache.items

\* C8: a skip tick draws exactly the set the most recent detect tick stored
\* and leaves the cache as it was; the cache changes on detect ticks only.
C8_SkipReusesCacheVerbatim ==
    /\ [](tickKind = "skip"
            => (drawn = storedByDetect.items
                /\ current_detections = storedByDetect))
    /\ [][current_detections' # current_detections
            => tickKind' = "detect"]_vars

C8_Witness == tickKind = "skip" /\ Len(drawn) > 0 /\ framesRead >= 3

\* a step in which update_frame rendered a frame (the render meter ticked)
RenderTicked ==
    framesRead' = framesRead + 1 /\ tickKind' \in {"detect", "skip"} /\ exc' = "none"

\* a step in which update_frame called the detector (the detection meter
\* ticked)
DetectTicked == framesRead' = framesRead + 1 /\ tickKind' = "detect"

\* the render meter closes its window: rate = (count + this tick) / elapsed
\* with elapsed >= 1 s, count back to 0, window start = the time now
RenderWindowCloses ==
    /\ \E e \in TicksPerSecond .. (now' - last_time) :
          fps' = <<frame_count + 1, e>>
    /\ frame_count' = 0
    /\ last_time' = now'

RenderWindowStaysOpen ==
    fps' = fps /\ frame_count' = frame_count + 1 /\ last_time' = last_time

\* the same for the detection meter; the time of its update lies between
\* the tick's start and its end
DetectionWindowCloses ==
    /\ \E e \in TicksPerSecond .. (now' - last_detection_time) :
          /\ detection_fps' = <<detection_count + 1, e>>
          /\ last_detection_time' >= last_detection_time + e
    /\ detection_count' = 0
    /\ last_detection_time' <= now'

DetectionWindowStaysOpen ==
    /\ detection_fps' = detection_fps
    /\ detection_count' = detection_count + 1
    /\ last_detection_time' = last_detection_time

\* C13: each rate meter changes its rate only on a tick of that meter at
\* which at least one second has passed since its window start; the rate
\* is then (count including this tick) / elapsed, the count goes to 0 and
\* the window starts at the current time.  On every other tick, and on
\* every step that is no tick of the meter, the rate stays what it was.
C13_MetersReportPerWindow ==
    [][ /\ IF RenderTicked
           THEN IF now' - last_time >= TicksPerSecond
                THEN RenderWindowCloses
                ELSE RenderWindowStaysOpen
           ELSE UNCHANGED <<fps, frame_count, last_time>>
        /\ IF DetectTicked
           THEN /\ DetectionWindowCloses \/ DetectionWindowStaysOpen
                /\ now - last_detection_time >= TicksPerSecond
                      => DetectionWindowCloses
                /\ now' - last_detection_time < TicksPerSecond
                      => DetectionWindowStaysOpen
           ELSE UNCHANGED <<detection_fps, detection_count, last_detection_time>>
      ]_vars

\* both meters have closed a window of two ticks and the render meter has
\* ticked again inside its next window
C13_Witness ==
    fps[1] >= 2 /\ detection_fps[1] >= 2 /\ frame_count >= 1 /\ tickKind = "skip"

\* C14: the session is Running only with the detector loaded and the camera
\* opened; a step that leaves the session not Running reads no frame and
\* calls no detector; a constructed session that is not Running stays so,
\* and a session on which on_quit has run is not Running.
C14_RunningOnlyAfterStartAndNeverAgain ==
    /\ [](running => (detector = "loaded" /\ cap = "opened" /\ quitCalls = 0))
    /\ [][ /\ ~running' => (framesRead' = framesRead /\ detectedAt' = detectedAt)
           /\ (pc = "constructed" /\ ~running) => ~running'
         ]_vars

\* a session that ran, read frames, and was stopped
C14_Witness ==
    ~running /\ quitCalls = 1 /\ cap = "released" /\ framesRead >= 2

\* C15: once on_quit has run, no later step reads a frame, calls the
\* detector, replaces the cached detections or renders.
C15_NothingDispatchedAfterQuit ==
    [][ quitCalls >= 1
          => /\ framesRead' = framesRead
             /\ detectedAt' = detectedAt
             /\ current_detections' = current_detections
             /\ drawn' = drawn
      ]_vars

\* on_quit ran on a session that had detected and had a tick pending
C15_Witness ==
    /\ quitCalls >= 1 /\ root = "destroyed" /\ ~scheduled /\ ~running
    /\ framesRead >= 1 /\ ~current_detections.none /\ tickKind \in {"detect", "skip"}

\* the last frame the detector was called on
LastDetected == CHOOSE i \in detectedAt : \A j \in detectedAt : j <= i

\* C19: with skip interval N >= 1, on every displayed frame the detections
\* drawn are those the detector returned for a frame at most N - 1
\* successfully read frames before the displayed one, and for the displayed
\* frame itself on a detect tick, whatever the timing of ticks and resets.
C19_StalenessBoundedBySkip ==
    (skip_frames >= 1 /\ tickKind \in {"detect", "skip"} /\ exc = "none")
        => /\ detectedAt # {}
           /\ (framesRead - 1) - LastDetected <= skip_frames - 1
           /\ tickKind = "detect" => LastDetected = framesRead - 1
           /\ current_detections = storedByDetect
           /\ drawn = storedByDetect.items

\* a displayed frame whose detections are as old as the bound allows
C19_Witness ==
    /\ skip_frames = 3 /\ tickKind = "skip" /\ exc = "none"
    /\ (framesRead - 1) - LastDetected = 2
    /\ Len(drawn) > 0

\* C20: the two meters share no state.  A step that calls no detector
\* leaves detection_count, last_detection_time and detection_fps alone; a
\* detect tick sets them from their own old values and the clock only; the
\* render meter's count, window and rate move on a detect tick exactly as
\* on a skip tick, by their own old values and the clock only.
C20_MetersShareNoState ==
    [][ /\ ~DetectTicked
             => UNCHANGED <<detection_count, last_detection_time, detection_fps>>
        /\ DetectTicked
             => IF detection_count' = 0
                THEN /\ \E e \in TicksPerSecond .. (now' - last_detection_time) :
                          detection_fps' = <<detection_count + 1, e>>
                     /\ last_detection_time' > last_detection_time
                ELSE /\ detection_count' = detection_count + 1
                     /\ UNCHANGED <<last_detection_time, detection_fps>>
        /\ RenderTicked
             => IF frame_count' = 0
                THEN /\ \E e \in TicksPerSecond .. (now' - last_time) :
                          fps' = <<frame_count + 1, e>>
                     /\ last_time' > last_time
                ELSE /\ frame_count' = frame_count + 1
                     /\ UNCHANGED <<last_time, fps>>
        /\ ~RenderTicked => UNCHANGED <<frame_count, last_time, fps>>
      ]_vars

\* both meters have reported, with different counts, rates and windows
C20_Witness ==
    /\ fps # <<0, 1>> /\ detection_fps # <<0, 1>>
    /\ fps[1] # detection_fps[1]
    /\ frame_count # detection_count
    /\ last_time # last_detection_time

(***************************************************************************)
(* SpecCache: the detection cache of update_frame on its own.  The cache   *)
(* starts unset (line 156); it is written by line 221 and read by line 228 *)
(* (and the read value iterated by line 231), here in any order.           *)
(***************************************************************************)
\* the lists a detector call can hand to line 221
CacheableLists ==
    {DetectFacesOptimized(wd, InferenceWidth, o).ret :
         wd \in LoopWidths, o \in Outcomes}

InitCache ==
    /\ sessionIdle /\ detectIdle /\ extraIdle
    /\ cPc = "ready"
    /\ cCache = None          \* self.current_detections = None
    /\ cGot = None
    /\ cErr = "none"
    /\ cReadUnset = FALSE

\* line 221: self.current_detections = detections
CachePut ==
    /\ cPc # "raised"
    /\ \E dets \in CacheableLists : cCache' = List(dets)
    /\ cPc' = "put"
    /\ UNCHANGED <<cGot, cErr, cReadUnset, sessionVars, detectVars, extraVars>>

\* lines 228-231: read the cache and iterate over what was read
CacheRead ==
    /\ cPc # "raised"
    /\ cGot' = CacheGet(cCache)
    /\ cReadUnset' = (cCache = None)
    /\ cErr' = IF CacheGet(cCache).none THEN "TypeError" ELSE "none"
    /\ cPc' = IF CacheGet(cCache).none THEN "raised" ELSE "read"
    /\ UNCHANGED <<cCache, sessionVars, detectVars, extraVars>>

NextCache == CachePut \/ CacheRead

SpecCache == InitCache /\ [][NextCache]_vars

\* C9: reading the cache before anything was stored yields an empty list
\* and no error: the tick renders no detections and completes.
C9_UnsetCacheReadsEmpty ==
    cReadUnset => (cGot = List(<<>>) /\ cErr = "none" /\ cPc # "raised")

C9_Witness == cReadUnset /\ cPc = "read" /\ cCache = None

(***************************************************************************)
(* SpecTrip: a box of the source frame is mapped into inference space      *)
(* (coordinate * scale, truncated: what a detector working on the resized  *)
(* image of line 74 reports for it, in exact arithmetic) and handed to     *)
(* detect_faces_optimized, which rescales it back (lines 86-92).           *)
(***************************************************************************)
TripWidths == {640, 848, 960, 1280, 1920, 2560}

\* coordinate * scale truncated, scale = max_width / width, for c >= 0
ToInference(c, max_width, width) ==
    IF width > max_width THEN (c * max_width) \div width ELSE c

CeilDiv(a, b) == (a + b - 1) \div b

InitTrip ==
    /\ sessionIdle /\ detectIdle /\ cacheIdle /\ drawIdle /\ webIdle /\ videoIdle
    /\ serverIdle
    /\ tPc = "ready"
    /\ tWidth \in TripWidths
    /\ \E a \in 0..MaxCoord :
         tBox = <<a, MaxCoord - a, a + MaxCoord, 2 * MaxCoord - a>>
    /\ tBack = <<>>

\* the detector reports the box in inference coordinates and
\* detect_faces_optimized converts it
TripThroughDetector ==
    /\ tPc = "ready"
    /\ tPc' = "done"
    /\ LET raw == RawBox(ToInference(tBox[1], InferenceWidth, tWidth),
                         ToInference(tBox[2], InferenceWidth, tWidth),
                         ToInference(tBox[3], InferenceWidth, tWidth),
                         ToInference(tBox[4], InferenceWidth, tWidth), 90)
           res == DetectFacesOptimized(tWidth, InferenceWidth,
                                       [raises |-> FALSE, boxes |-> <<raw>>])
       IN  tBack' = <<res.ret[1].x1, res.ret[1].y1, res.ret[1].x2, res.ret[1].y2>>
    /\ UNCHANGED <<tWidth, tBox, sessionVars, detectVars, cacheVars, drawVars,
                   webVars, videoVars, serverVars>>

NextTrip == TripThroughDetector

SpecTrip == InitTrip /\ [][NextTrip]_vars

\* C11 as stated: the round trip recovers each of x1, y1, x2, y2 to within
\* 1 pixel of its original value, for every scale in (0, 1].
C11_RoundTripWithinOnePixel ==
    tPc = "done"
        => \A i \in 1..4 : tBox[i] - tBack[i] <= 1 /\ tBack[i] - tBox[i] <= 1

\* C11 amended: the round trip never moves a coordinate up and moves it
\* down by at most ceil(width / max_width) pixels; with width <= max_width
\* it recovers the coordinate exactly.
C11_RoundTripWithinScaleBound ==
    tPc = "done"
        => \A i \in 1..4 :
             /\ tBack[i] <= tBox[i]
             /\ tBox[i] - tBack[i] <=
                  (IF tWidth > InferenceWidth
                   THEN CeilDiv(tWidth, InferenceWidth) ELSE 0)

C11_Witness ==
    /\ tPc = "done" /\ tWidth = 848
    /\ \E i \in 1..4 : tBox[i] - tBack[i] = 2


(***************************************************************************)
(* SpecDraw: one drawing call on the store of image arrays.  An array is   *)
(* [w, h, marks]; marks lists the cv2 drawing calls made on it, with the   *)
(* points as they were passed (cv2 clips to the array while rasterising    *)
(* and does not fail on points outside it).  The call is draw_faces, or    *)
(* the drawing part of update_frame (lines 230-260).                       *)
(***************************************************************************)
DisplayWidth == 1000       \* display_w = 1000

ImageSizes == {[w |-> 640, h |-> 480], [w |-> 1000, h |-> 750],
               [w |-> 1280, h |-> 720]}

\* detections as detect_faces returns them, some with the top edge near or
\* at the top of the frame
DrawDetections ==
    {MakeDetection(100, 100, 200, 200, 90),
     MakeDetection(40, 20, 160, 201, 75),
     MakeDetection(10, 4, 60, 50, 90),
     MakeDetection(0, 0, 30, 30, 75)}

DrawConfs == {d.confidence : d \in DrawDetections}

\* text_size[0] of cv2.getTextSize(conf_text, FONT_HERSHEY_SIMPLEX, 0.7, 2)
TextSizes == {[w |-> 68, h |-> 15], [w |-> 72, h |-> 16]}

\* cv2.rectangle(img, (x1, y1), (x2, y2), color, thickness)
Rectangle(x1, y1, x2, y2, thickness) ==
    [op |-> "rectangle", x1 |-> x1, y1 |-> y1, x2 |-> x2, y2 |-> y2,
     thickness |-> thickness, text |-> <<>>]

\* cv2.putText(img, text, (x, y), ...)
PutText(text, x, y) ==
    [op |-> "putText", x1 |-> x, y1 |-> y, x2 |-> x, y2 |-> y,
     thickness |-> 0, text |-> text]

\* a drawing call writes into the array it is given
Mark(heap, id, m) == [heap EXCEPT ![id].marks = Append(@, m)]

\* drawing with no copy: the result is the array passed in
ImageCopy_Alias(heap, id) == [heap |-> heap, id |-> id]

\* image.copy() (lines 112, 230): a new array with the same contents
ImageCopy(heap, id) == [heap |-> Append(heap, heap[id]), id |-> Len(heap) + 1]

\* lines 114-136 for one detection
DrawOneFace(heap, result, det, show_confidence, text_size) ==
    LET boxed == Mark(heap, result, Rectangle(det.x1, det.y1, det.x2, det.y2, 2))
    IN  IF show_confidence
        THEN Mark(Mark(boxed, result,
                       Rectangle(det.x1, det.y1 - text_size.h - 10,
                                 det.x1 + text_size.w + 5, det.y1, 0 - 1)),
                  result,
                  PutText(<<"conf", det.confidence>>, det.x1 + 2, det.y1 - 5))
        ELSE boxed

RECURSIVE DrawLoop(_, _, _, _, _, _)
DrawLoop(heap, result, detections, i, show_confidence, text) ==
    IF i > Len(detections) THEN heap
    ELSE DrawLoop(DrawOneFace(heap, result, detections[i], show_confidence,
                              text[detections[i].confidence]),
                  result, detections, i + 1, show_confidence, text)

\* draw_faces (lines 111-137): [heap: the arrays after the call, ret: the
\* array returned]
DrawFaces(heap, image, detections, show_confidence, text) ==
    LET result == ImageCopy(heap, image)
    IN  [heap |-> DrawLoop(result.heap, result.id, detections, 1,
                           show_confidence, text),
         ret |-> result.id]

\* lines 231-243 of update_frame
RECURSIVE LoopDrawLoop(_, _, _, _)
LoopDrawLoop(heap, result, detections, i) ==
    IF i > Len(detections) THEN heap
    ELSE LET det == detections[i]
         IN  LoopDrawLoop(
                 Mark(Mark(heap, result,
                           Rectangle(det.x1, det.y1, det.x2, det.y2, 2)),
                      result,
                      PutText(<<"conf", det.confidence>>, det.x1, det.y1 - 5)),
                 result, detections, i + 1)

\* a display step that resizes every frame to the display width
DisplayResize_Always(heap, result) ==
    [heap |-> Append(heap,
                     [w |-> DisplayWidth,
                      h |-> (heap[result].h * DisplayWidth) \div heap[result].w,
                      marks |-> heap[result].marks]),
     id |-> Len(heap) + 1]

\* lines 256-260: cv2.resize returns a new array
DisplayResize(heap, result) ==
    IF heap[result].w > DisplayWidth
    THEN [heap |-> Append(heap,
                          [w |-> DisplayWidth,
                           h |-> (heap[result].h * DisplayWidth) \div heap[result].w,
                           marks |-> heap[result].marks]),
          id |-> Len(heap) + 1]
    ELSE [heap |-> heap, id |-> result]

\* lines 230-260 of update_frame on the frame just read: [heap, ret: the
\* array handed to the display]
RenderFrame(heap, frame, detections) ==
    LET result == ImageCopy(heap, frame)
        drawn_on == LoopDrawLoop(result.heap, result.id, detections, 1)
        told == Mark(drawn_on, result.id,
                     PutText(<<"info", Len(detections)>>, 10, 30))
        shown == DisplayResize(told, result.id)
    IN  [heap |-> shown.heap, ret |-> shown.id]

InitDraw ==
    /\ sessionIdle /\ detectIdle /\ cacheIdle /\ tripIdle /\ webIdle /\ videoIdle
    /\ serverIdle
    /\ gPc = "ready" /\ gFn = "none"
    /\ \E size \in ImageSizes :
         /\ gHeap = <<[w |-> size.w, h |-> size.h, marks |-> <<>>]>>
         /\ gBefore = [w |-> size.w, h |-> size.h, marks |-> <<>>]
    /\ gImage = 1
    /\ gDets \in SeqsUpTo(DrawDetections, MaxBoxes)
    /\ gShow \in BOOLEAN
    /\ gText \in [DrawConfs -> TextSizes]
    /\ gResult = 0

CallDrawFaces ==
    /\ gPc = "ready"
    /\ gPc' = "done" /\ gFn' = "draw_faces"
    /\ LET out == DrawFaces(gHeap, gImage, gDets, gShow, gText)
       IN  gHeap' = out.heap /\ gResult' = out.ret
    /\ UNCHANGED <<gImage, gBefore, gDets, gShow, gText, sessionVars,
                   detectVars, cacheVars, tripVars, webVars, videoVars,
                   serverVars>>

CallRenderFrame ==
    /\ gPc = "ready"
    /\ gPc' = "done" /\ gFn' = "update_frame"
    /\ LET out == RenderFrame(gHeap, gImage, gDets)
       IN  gHeap' = out.heap /\ gResult' = out.ret
    /\ UNCHANGED <<gImage, gBefore, gDets, gShow, gText, sessionVars,
                   detectVars, cacheVars, tripVars, webVars, videoVars,
                   serverVars>>

NextDraw == CallDrawFaces \/ CallRenderFrame

SpecDraw == InitDraw /\ [][NextDraw]_vars

\* number of drawing calls the call makes for its detections
MarksExpected ==
    IF gFn = "draw_faces"
    THEN Len(gDets) * (IF gShow THEN 3 ELSE 1)
    ELSE 2 * Len(gDets) + 1

\* C16: draw_faces returns a new image and leaves the image passed in as it
\* was, for every list of detections; the drawing part of update_frame puts
\* boxes and telemetry on a copy, so the frame read is as it was.
C16_InputImageNeverMutated ==
    gPc = "done"
        => /\ gResult # gImage
           /\ gHeap[gImage] = gBefore
           /\ Len(gHeap[gResult].marks) = MarksExpected

\* draw_faces drew two labelled faces on the copy
C16_Witness ==
    /\ gPc = "done" /\ gFn = "draw_faces" /\ gShow
    /\ Len(gHeap[gResult].marks) = 6 /\ gHeap[gImage].marks = <<>>

\* C17: with confidence display, the backdrop draw_faces draws for a box is
\* given a top coordinate that is never negative: for a box with
\* y1 < label height + 10 the top is 0.  (Drawing never fails here.)
C17_BackdropTopClamped ==
    (gPc = "done" /\ gFn = "draw_faces" /\ gShow)
        => \A i \in 1..Len(gHeap[gResult].marks) :
             LET m == gHeap[gResult].marks[i]
             IN  (m.op = "rectangle" /\ m.thickness = 0 - 1) => m.y1 >= 0


\* C21: in a tick the display downscale comes last.  The copy of the frame
\* keeps the source size and receives every box, label and the telemetry
\* text at source coordinates; what is displayed carries exactly those
\* marks, and is a resized array only for a width above 1000, of width 1000
\* and height trunc(h * 1000 / w); otherwise it is the copy itself.
C21_DisplayResizeComesLast ==
    (gPc = "done" /\ gFn = "update_frame")
        => LET copy == gHeap[gImage + 1]
               shown == gHeap[gResult]
           IN  /\ copy.w = gBefore.w /\ copy.h = gBefore.h
               /\ Len(copy.marks) = 2 * Len(gDets) + 1
               /\ \A i \in 1..Len(gDets) :
                    /\ copy.marks[2 * i - 1] =
                         Rectangle(gDets[i].x1, gDets[i].y1, gDets[i].x2, gDets[i].y2, 2)
                    /\ copy.marks[2 * i] =
                         PutText(<<"conf", gDets[i].confidence>>,
                                 gDets[i].x1, gDets[i].y1 - 5)
               /\ copy.marks[Len(copy.marks)] = PutText(<<"info", Len(gDets)>>, 10, 30)
               /\ shown.marks = copy.marks
               /\ IF gBefore.w > 1000
                  THEN /\ gResult = gImage + 2
                       /\ shown.w = 1000
                       /\ shown.h = (gBefore.h * 1000) \div gBefore.w
                  ELSE gResult = gImage + 1

\* a 1280 x 720 frame with two faces was displayed at 1000 x 562
C21_Witness ==
    /\ gPc = "done" /\ gFn = "update_frame" /\ Len(gDets) = 2
    /\ gBefore.w = 1280 /\ gHeap[gResult].w = 1000 /\ gHeap[gResult].h = 562

(***************************************************************************)
(* SpecWeb: one HTTP request to the Flask application of web_app.py.  A    *)
(* path is the sequence of the pieces between its slashes: "/" is <<"">>,  *)
(* "/api/health" is <<"api", "health">>, "/api//health" is                 *)
(* <<"api", "", "health">>, "/api/health/" is <<"api", "health", "">>.     *)
(* Paths with three or more slashes in a row are left out.  The router is  *)
(* werkzeug's with Flask's defaults: strict_slashes and merge_slashes.     *)
(***************************************************************************)
Segments == {"", "api", "health", "models", "download", "detect-image",
             "detect-video", "static", "page-not-found", "a.jpg"}

\* DELETE stands for a method no route accepts
Methods == {"GET", "DELETE"}

\* no run of three slashes: an empty piece is followed by a non-empty one,
\* or by the last piece
NoTripleSlash(path) ==
    \A i \in 1..(Len(path) - 2) : ~(path[i] = "" /\ path[i + 1] = "")

RequestPaths ==
    {q \in SeqsUpTo(Segments, MaxSegments) : Len(q) >= 1 /\ NoTripleSlash(q)}

\* a routing table with a catch-all page
Routes_CatchAll ==
    {[rule |-> <<"">>, methods |-> {"GET"}, endpoint |-> "index"],
     [rule |-> <<"<path:filename>">>, methods |-> {"GET"}, endpoint |-> "index"],
     [rule |-> <<"api", "detect-image">>, methods |-> {"POST"}, endpoint |-> "detect_image"],
     [rule |-> <<"api", "detect-video">>, methods |-> {"POST"}, endpoint |-> "detect_video"],
     [rule |-> <<"api", "download", "<filename>">>, methods |-> {"GET"}, endpoint |-> "download_file"],
     [rule |-> <<"api", "models">>, methods |-> {"GET"}, endpoint |-> "get_models"],
     [rule |-> <<"api", "health">>, methods |-> {"GET"}, endpoint |-> "health_check"],
     [rule |-> <<"static", "<path:filename>">>, methods |-> {"GET"}, endpoint |-> "static"]}

\* the @app.route decorators (lines 89, 95, 168, 218, 233, 278) and the
\* static route Flask(__name__, ...) registers (line 18)
Routes ==
    {[rule |-> <<"">>, methods |-> {"GET"}, endpoint |-> "index"],
     [rule |-> <<"api", "detect-image">>, methods |-> {"POST"}, endpoint |-> "detect_image"],
     [rule |-> <<"api", "detect-video">>, methods |-> {"POST"}, endpoint |-> "detect_video"],
     [rule |-> <<"api", "download", "<filename>">>, methods |-> {"GET"}, endpoint |-> "download_file"],
     [rule |-> <<"api", "models">>, methods |-> {"GET"}, endpoint |-> "get_models"],
     [rule |-> <<"api", "health">>, methods |-> {"GET"}, endpoint |-> "health_check"],
     [rule |-> <<"static", "<path:filename>">>, methods |-> {"GET"}, endpoint |-> "static"]}

\* a rule matches a path: literal pieces are equal, <filename> takes one
\* non-empty piece, <path:filename> takes the rest of the path if it does
\* not start with a slash
MatchesRule(rule, path) ==
    IF rule[Len(rule)] = "<path:filename>"
    THEN /\ Len(path) >= Len(rule)
         /\ path[Len(rule)] # ""
         /\ \A i \in 1..(Len(rule) - 1) : rule[i] = path[i]
    ELSE /\ Len(path) = Len(rule)
         /\ \A i \in 1..Len(rule) :
              IF rule[i] = "<filename>" THEN path[i] # "" ELSE rule[i] = path[i]

\* merge_slashes: a run of slashes becomes one slash; the empty piece
\* after a trailing slash stays
RECURSIVE MergeSlashes(_)
MergeSlashes(path) ==
    IF Len(path) <= 1 THEN path
    ELSE IF Head(path) = "" THEN MergeSlashes(Tail(path))
    ELSE <<Head(path)>> \o MergeSlashes(Tail(path))

\* URL matching of a request: the endpoint to call, or the routing error
Resolve(method, path) ==
    LET direct == {r \in Routes : MatchesRule(r.rule, path)}
        merged == {r \in Routes : MatchesRule(r.rule, MergeSlashes(path))}
    IN  IF \E r \in direct : method \in r.methods
        THEN (CHOOSE r \in direct : method \in r.methods).endpoint
        ELSE IF direct # {} THEN "MethodNotAllowed"
        ELSE IF \E r \in merged : method \in r.methods THEN "RequestRedirect"
        ELSE IF merged # {} THEN "MethodNotAllowed"
        ELSE "NotFound"

\* render_template('index.html') with the template of web/templates
RenderIndexTemplate == [status |-> 200, body |-> "html"]

\* the answer to a file route, by what the file is on disk: download_file
\* (lines 218-230) and Flask's send_static_file
DownloadFile(disk) ==
    IF disk = "missing" THEN [status |-> 404, body |-> "json"]
    ELSE IF disk = "file" THEN [status |-> 200, body |-> "file"]
    ELSE [status |-> 500, body |-> "json"]

SendStaticFile(disk) ==
    IF disk = "file" THEN [status |-> 200, body |-> "file"]
    ELSE [status |-> 404, body |-> "html"]

InitWeb ==
    /\ sessionIdle /\ detectIdle /\ cacheIdle /\ tripIdle /\ drawIdle /\ videoIdle
    /\ serverIdle
    /\ wPc = "ready"
    /\ wReq \in [method : Methods, path : RequestPaths]
    /\ wDisk \in {"file", "missing", "directory"}
    /\ wResp = NoResponse

Respond(endpoint, response) ==
    /\ wPc = "ready"
    /\ Resolve(wReq.method, wReq.path) = endpoint
    /\ wPc' = "done"
    /\ wResp' = response
    /\ UNCHANGED <<wReq, wDisk, sessionVars, detectVars, cacheVars, tripVars,
                   drawVars, videoVars, serverVars>>

\* index (lines 89-92)
Index == Respond("index", RenderIndexTemplate)

\* download_file (lines 218-230)
DownloadFileView == Respond("download_file", DownloadFile(wDisk))

\* get_models (lines 233-275)
GetModels == Respond("get_models", [status |-> 200, body |-> "json"])

\* health_check (lines 278-281)
HealthCheck == Respond("health_check", [status |-> 200, body |-> "json"])

\* the static view of the Flask object
StaticView == Respond("static", SendStaticFile(wDisk))

\* routing errors, answered by Flask with the exception's own page
RouteNotFound == Respond("NotFound", [status |-> 404, body |-> "html"])

RouteMethodNotAllowed ==
    Respond("MethodNotAllowed", [status |-> 405, body |-> "html"])

RouteRedirect == Respond("RequestRedirect", [status |-> 308, body |-> "html"])

NextWeb ==
    \/ Index \/ DownloadFileView \/ GetModels \/ HealthCheck \/ StaticView
    \/ RouteNotFound \/ RouteMethodNotAllowed \/ RouteRedirect

SpecWeb == InitWeb /\ [][NextWeb]_vars

\* the paths the application registers, as the claim names them: /,
\* /api/detect-image, /api/detect-video, /api/download/<name>, /api/models,
\* /api/health, /static/<path>
IsRegisteredPath(path) ==
    \/ path = <<"">>
    \/ path \in {<<"api", "detect-image">>, <<"api", "detect-video">>,
                 <<"api", "models">>, <<"api", "health">>}
    \/ Len(path) = 3 /\ path[1] = "api" /\ path[2] = "download" /\ path[3] # ""
    \/ Len(path) >= 2 /\ path[1] = "static" /\ path[2] # ""

VideoCalls ==
    {DetectFaces(InferenceWidth, o) :
        o \in {[raises |-> TRUE, boxes |-> <<>>],
               [raises |-> FALSE, boxes |-> <<RawBox(100, 100, 200, 200, 90)>>],
               [raises |-> FALSE, boxes |-> <<RawBox(100, 100, 200, 200, 90),
                                              RawBox(40, 80, 160, 201, 75)>>]}}

InitVideo ==
    /\ sessionIdle /\ detectIdle /\ cacheIdle /\ tripIdle /\ drawIdle /\ webIdle
    /\ serverIdle
    /\ vPc = "init"
    /\ vOutput \in BOOLEAN
    /\ vCap = "None" /\ vWriter = "None"
    /\ vAttempts = 0 /\ vRead = 0 /\ vDetected = <<>> /\ vWritten = <<>>
    /\ vCapReleases = 0 /\ vWriterReleases = 0

othersUnchangedByVideo ==
    UNCHANGED <<sessionVars, detectVars, cacheVars, tripVars, drawVars, webVars,
                serverVars>>

\* lines 289-302: open the source, load the detector, open the writer
OpenVideo ==
    /\ vPc = "init"
    /\ \E opened \in BOOLEAN, loaded \in BOOLEAN :
         IF ~opened
         THEN /\ vCap' = "unopened" /\ vPc' = "returned"
              /\ UNCHANGED vWriter
         ELSE /\ vCap' = "opened"
              /\ IF ~loaded
                 THEN vPc' = "raised" /\ UNCHANGED vWriter
                 ELSE /\ vPc' = "loop"
                      /\ vWriter' = IF vOutput THEN "open" ELSE "None"
    /\ UNCHANGED <<vOutput, vAttempts, vRead, vDetected, vWritten,
                   vCapReleases, vWriterReleases>>
    /\ othersUnchangedByVideo

\* lines 305-311 with ret true: detect, draw, write
ProcessFrame ==
    /\ vPc = "loop" /\ vRead < MaxVideoFrames
    /\ vAttempts' = vAttempts + 1
    /\ vRead' = vRead + 1
    /\ vDetected' = Append(vDetected, vRead)
    /\ \E res \in VideoCalls :
         vWritten' = IF vWriter # "None"
                     THEN Append(vWritten, [frame |-> vRead, faces |-> Len(res.ret)])
                     ELSE vWritten
    /\ UNCHANGED <<vPc, vOutput, vCap, vWriter, vCapReleases, vWriterReleases>>
    /\ othersUnchangedByVideo

\* an end of the video that releases the source but not the writer
EndOfVideo_KeepsWriter ==
    /\ vPc = "loop"
    /\ vAttempts' = vAttempts + 1
    /\ vPc' = "returned"
    /\ vCap' = "released" /\ vCapReleases' = vCapReleases + 1
    /\ UNCHANGED <<vOutput, vRead, vDetected, vWritten, vWriter, vWriterReleases>>
    /\ othersUnchangedByVideo

\* lines 305-307 with ret false, then lines 313-316
EndOfVideo ==
    /\ vPc = "loop"
    /\ vAttempts' = vAttempts + 1
    /\ vPc' = "returned"
    /\ vCap' = "released" /\ vCapReleases' = vCapReleases + 1
    /\ IF vWriter # "None"
       THEN vWriter' = "released" /\ vWriterReleases' = vWriterReleases + 1
       ELSE UNCHANGED <<vWriter, vWriterReleases>>
    /\ UNCHANGED <<vOutput, vRead, vDetected, vWritten>>
    /\ othersUnchangedByVideo

NextVideo == OpenVideo \/ ProcessFrame \/ EndOfVideo

SpecVideo == InitVideo /\ [][NextVideo]_vars

\* C23: a call whose source opened and yielded K frames before a read
\* failed has, once it returned, made K + 1 reads, given the frames
\* 0 .. K-1 to the detector once each in that order, written the K drawn
\* frames in that order if an output path was given and none otherwise,
\* and released the source once and the writer once (if there is one).
\* Nothing happens after the return.
C23_VideoEndsAtFirstFailedRead ==
    /\ [](  (vPc = "returned" /\ vCap # "unopened")
              => /\ vAttempts = vRead + 1
                 /\ vDetected = [i \in 1..vRead |-> i - 1]
                 /\ IF vOutput
                    THEN /\ Len(vWritten) = vRead
                         /\ \A i \in 1..vRead : vWritten[i].frame = i - 1
                         /\ vWriter = "released" /\ vWriterReleases = 1
                    ELSE vWritten = <<>> /\ vWriter = "None" /\ vWriterReleases = 0
                 /\ vCap = "released" /\ vCapReleases = 1 )
    /\ [][vPc = "returned" => UNCHANGED videoVars]_vars

\* a video of three frames was processed to its end with an output file
C23_Witness ==
    /\ vPc = "returned" /\ vOutput /\ vRead = 3 /\ Len(vWritten) = 3
    /\ vWritten[3].faces = 1

\* C24: once the source was opened, every exit of detect_from_video,
\* return or exception, has released the source.
C24_SourceReleasedOnEveryExit ==
    (vPc \in {"returned", "raised"} /\ vCap # "unopened")
        => (vCap = "released" /\ vCapReleases = 1)

(***************************************************************************)
(* SpecServer: the request threads of the Flask server of web_app.py       *)
(* (app.run serves each request in its own thread).  A thread runs a       *)
(* get_detector call, or an upload request to /api/detect-image or         *)
(* /api/detect-video, one step at a time; the steps of different threads   *)
(* interleave.  Names are strings; what secure_filename, rsplit and lower  *)
(* make of them is tabulated for the names used.                           *)
(***************************************************************************)
Threads == {1, 2}

\* lines 26-31
ALLOWED_MODELS ==
    {"yolov12n-face.pt", "yolov12s-face.pt", "yolov12m-face.pt", "yolov12l-face.pt"}

\* line 24
ALLOWED_EXTENSIONS == {"jpg", "jpeg", "png", "gif", "mp4", "avi", "mov", "mkv"}

\* names given to get_detector
ModelNames == {"yolov12n-face.pt", "../yolov12n-face.pt", "yolov12l-face.pt", "evil.pt"}

\* file names of uploads
FileNames == {"", "photo.jpg", "PHOTO.JPG", "clip.mp4", "notes.txt", "photo"}

\* werkzeug's secure_filename on these names: separators become "_", and
\* leading dots and underscores are stripped
SecureFilename(name) ==
    CASE name = "../yolov12n-face.pt" -> "yolov12n-face.pt"
      [] OTHER -> name

\* '.' in filename
HasDot(filename) == filename \in {"photo.jpg", "PHOTO.JPG", "clip.mp4", "notes.txt"}

\* filename.rsplit('.', 1)[1].lower(); a name without a dot has no [1]
ExtLower(filename) ==
    CASE filename \in {"photo.jpg", "PHOTO.JPG"} -> "jpg"
      [] filename = "clip.mp4" -> "mp4"
      [] filename = "notes.txt" -> "txt"
      [] OTHER -> "IndexError"

\* an extension test that lets every name through
AllowedFile_Any(filename) == TRUE

\* allowed_file (lines 72-74)
AllowedFile(filename) ==
    HasDot(filename) /\ ExtLower(filename) \in ALLOWED_EXTENSIONS

\* is_image (lines 77-80) and is_video (lines 83-86)
IsImage(filename) == ExtLower(filename) \in {"jpg", "jpeg", "png", "gif"}

IsVideo(filename) == ExtLower(filename) \in {"mp4", "avi", "mov", "mkv"}

\* a membership test that lets every name through
IsAllowedModel_Any(safe_name) == TRUE

\* line 45: safe_name in ALLOWED_MODELS
IsAllowedModel(safe_name) == safe_name \in ALLOWED_MODELS

CacheKeys == {SecureFilename(n) : n \in ModelNames} \cup ALLOWED_MODELS

NoModel == [given |-> FALSE, value |-> ""]

\* the form's model field: absent, or a model name
FormModels == {NoModel, [given |-> TRUE, value |-> "yolov12n-face.pt"]}

NoUpload == [endpoint |-> "none", hasFile |-> FALSE, filename |-> "", model |-> NoModel]

\* upload requests: no file part, or a file part with a file name
UploadRequests ==
    {[endpoint |-> e, hasFile |-> FALSE, filename |-> "", model |-> m] :
        e \in {"detect_image", "detect_video"}, m \in FormModels}
    \cup
    {[endpoint |-> e, hasFile |-> TRUE, filename |-> f, model |-> m] :
        e \in {"detect_image", "detect_video"}, f \in FileNames, m \in FormModels}

IdleThread ==
    [pc |-> "idle", op |-> "none", safe |-> "", inst |-> 0, wrote |-> FALSE,
     out |-> "none", ret |-> 0, status |-> 0, req |-> NoUpload]

\* lines 98-107 and 171-180: 400 for a rejected upload, 500 for an
\* exception caught at 163 / 212, 0 to go on
ValidateUpload(req) ==
    IF ~req.hasFile THEN 400
    ELSE IF req.filename = "" THEN 400
    ELSE IF ~AllowedFile(req.filename) THEN 400
    ELSE IF ExtLower(req.filename) = "IndexError" THEN 500
    ELSE IF req.endpoint = "detect_image" /\ ~IsImage(req.filename) THEN 400
    ELSE IF req.endpoint = "detect_video" /\ ~IsVideo(req.filename) THEN 400
    ELSE 0

\* lines 110-113 and 183-186: the model asked for, or the default
ChosenModel(req) ==
    IF req.model.given /\ req.model.value \in ALLOWED_MODELS
    THEN req.model.value
    ELSE IF req.endpoint = "detect_image" THEN "yolov12l-face.pt"
    ELSE "yolov12m-face.pt"

InitServer ==
    /\ sessionIdle /\ detectIdle /\ cacheIdle /\ tripIdle /\ drawIdle /\ webIdle
    /\ videoIdle
    /\ detector_cache = [k \in CacheKeys |-> 0]
    /\ th = [t \in Threads |-> IdleThread]
    /\ calls = 0
    /\ loads = [k \in CacheKeys |-> 0]
    /\ returnedFor = [k \in CacheKeys |-> {}]
    /\ uploads = {}
    /\ invoked = 0
    /\ videoRuns = 0

othersUnchangedByServer ==
    UNCHANGED <<sessionVars, detectVars, cacheVars, tripVars, drawVars, webVars,
                videoVars>>

\* an exception leaves get_detector: to the caller of a direct call, or to
\* the handler of detect_image (line 163), which answers 500
Raised(t, error) ==
    [th[t] EXCEPT !.pc = "idle", !.out = error,
                  !.status = IF th[t].op = "detect_image" THEN 500 ELSE 0]

\* lines 43-48 of get_detector, entered with `safe` holding the argument
EnterGetDetector(rec) ==
    LET safe_name == SecureFilename(rec.safe)
    IN  IF ~IsAllowedModel(safe_name)
        THEN [rec EXCEPT !.pc = "idle", !.safe = safe_name, !.out = "ValueError",
                         !.status = IF rec.op = "detect_image" THEN 500 ELSE 0]
        ELSE IF detector_cache[safe_name] # 0
        THEN [rec EXCEPT !.pc = "return", !.safe = safe_name]
        ELSE [rec EXCEPT !.pc = "resolve", !.safe = safe_name]

\* a thread is called with get_detector(name)
CallGetDetector(t) ==
    /\ th[t].pc = "idle" /\ calls < MaxCalls
    /\ calls' = calls + 1
    /\ \E name \in ModelNames :
         th' = [th EXCEPT ![t] =
                  EnterGetDetector([IdleThread EXCEPT !.op = "get_detector",
                                                      !.safe = name])]
    /\ UNCHANGED <<detector_cache, loads, returnedFor, uploads, invoked, videoRuns>>
    /\ othersUnchangedByServer

\* lines 49-67, right-hand side: resolve the path, test the file, construct
\* the detector.  What the path is on disk is the file system's choice.
LoadDetector(t) ==
    /\ th[t].pc = "resolve"
    /\ \E disk \in {"file", "missing", "outside", "corrupt"} :
         IF disk = "file"
         THEN /\ loads' = [loads EXCEPT ![th[t].safe] = @ + 1]
              /\ th' = [th EXCEPT ![t].pc = "store",
                                  ![t].inst = loads[th[t].safe] + 1]
         ELSE /\ th' = [th EXCEPT ![t] =
                          Raised(t, IF disk = "corrupt" THEN "Exception"
                                    ELSE "FileNotFoundError")]
              /\ UNCHANGED loads
    /\ UNCHANGED <<detector_cache, calls, returnedFor, uploads, invoked, videoRuns>>
    /\ othersUnchangedByServer

\* line 67, the assignment
StoreDetector(t) ==
    /\ th[t].pc = "store"
    /\ detector_cache' = [detector_cache EXCEPT ![th[t].safe] = th[t].inst]
    /\ th' = [th EXCEPT ![t].pc = "return", ![t].wrote = TRUE]
    /\ UNCHANGED <<calls, loads, returnedFor, uploads, invoked, videoRuns>>
    /\ othersUnchangedByServer

\* line 69: return detector_cache[safe_name]
ReturnDetector(t) ==
    /\ th[t].pc = "return"
    /\ returnedFor' = [returnedFor EXCEPT ![th[t].safe] =
                          @ \cup {detector_cache[th[t].safe]}]
    /\ th' = [th EXCEPT ![t].ret = detector_cache[th[t].safe],
                        ![t].out = "returned",
                        ![t].pc = IF th[t].op = "detect_image" THEN "detect"
                                  ELSE "idle"]
    /\ UNCHANGED <<detector_cache, calls, loads, uploads, invoked, videoRuns>>
    /\ othersUnchangedByServer

\* an upload request reaches its view: lines 98-116 of detect_image, or
\* lines 171-186 of detect_video
PostUpload(t) ==
    /\ th[t].pc = "idle" /\ calls < MaxCalls
    /\ calls' = calls + 1
    /\ \E req \in UploadRequests :
         LET rec == [IdleThread EXCEPT !.op = req.endpoint, !.req = req]
             verdict == ValidateUpload(req)
         IN  th' = [th EXCEPT ![t] =
                      IF verdict # 0
                      THEN [rec EXCEPT !.status = verdict]
                      ELSE IF req.endpoint = "detect_image"
                      THEN EnterGetDetector([rec EXCEPT !.safe = ChosenModel(req)])
                      ELSE [rec EXCEPT !.pc = "save", !.safe = ChosenModel(req)]]
    /\ UNCHANGED <<detector_cache, loads, returnedFor, uploads, invoked, videoRuns>>
    /\ othersUnchangedByServer

\* lines 119-165 of detect_image: decode, detect, draw, answer; an upload
\* that does not decode makes draw_faces raise
DetectImage(t) ==
    /\ th[t].pc = "detect"
    /\ invoked' = invoked + 1
    /\ \E decodes \in BOOLEAN :
         th' = [th EXCEPT ![t].pc = "idle",
                          ![t].status = IF decodes THEN 200 ELSE 500]
    /\ UNCHANGED <<detector_cache, calls, loads, returnedFor, uploads, videoRuns>>
    /\ othersUnchangedByServer

\* lines 189-192 of detect_video: file.save(input_path)
SaveUpload(t) ==
    /\ th[t].pc = "save"
    /\ uploads' = uploads \cup {<<"input", SecureFilename(th[t].req.filename)>>}
    /\ th' = [th EXCEPT ![t].pc = "video"]
    /\ UNCHANGED <<detector_cache, calls, loads, returnedFor, invoked, videoRuns>>
    /\ othersUnchangedByServer

\* lines 195-215 of detect_video: detect_from_video loads its own detector
\* and writes the output file, or raises
RunVideo(t) ==
    /\ th[t].pc = "video"
    /\ videoRuns' = videoRuns + 1
    /\ \E outcome \in {"written", "not opened", "raised"} :
         /\ uploads' = IF outcome = "written"
                       THEN uploads \cup
                              {<<"output", SecureFilename(th[t].req.filename)>>}
                       ELSE uploads
         /\ th' = [th EXCEPT ![t].pc = "idle",
                             ![t].status = IF outcome = "raised" THEN 500 ELSE 200]
    /\ UNCHANGED <<detector_cache, calls, loads, returnedFor, invoked>>
    /\ othersUnchangedByServer

NextServer ==
    \E t \in Threads :
        \/ CallGetDetector(t) \/ LoadDetector(t) \/ StoreDetector(t)
        \/ ReturnDetector(t) \/ PostUpload(t) \/ DetectImage(t)
        \/ SaveUpload(t) \/ RunVideo(t)

SpecServer == InitServer /\ [][NextServer]_vars

\* C25: get_detector constructs at most one detector per model name, and
\* all calls for one name return the same instance, however the calls of
\* concurrent requests interleave.
C25_OneDetectorPerModel ==
    \A k \in CacheKeys : loads[k] <= 1 /\ Cardinality(returnedFor[k]) <= 1

GetDetectorErrors == {"ValueError", "FileNotFoundError", "Exception"}

\* C26: every key of the detector cache is one of the allowed model names;
\* a get_detector call for an unsupported name raises ValueError; and the
\* step by which a get_detector call raises leaves the cache as it was,
\* the call having written no entry before.
C26_CacheKeysAllowedAndFailuresLeaveCache ==
    /\ [](/\ \A k \in CacheKeys :
                detector_cache[k] # 0 =>
                    k \in {"yolov12n-face.pt", "yolov12s-face.pt",
                           "yolov12m-face.pt", "yolov12l-face.pt"}
          /\ \A t \in Threads :
                th[t].op = "get_detector" /\ th[t].safe = "evil.pt"
                    => th[t].pc = "idle" /\ th[t].out = "ValueError")
    /\ [][\A t \in Threads :
            (/\ th'[t].pc = "idle"
             /\ th'[t].out \in GetDetectorErrors
             /\ (th[t].pc # "idle" \/ calls' # calls))
                => detector_cache' = detector_cache /\ ~th'[t].wrote]_vars

\* a filled cache after one call raised for an unsupported name and
\* another for a model file that could not be used
C26_Witness ==
    /\ detector_cache["yolov12n-face.pt"] # 0
    /\ \E t, u \in Threads :
         /\ th[t].op = "get_detector" /\ th[t].out = "ValueError"
         /\ th[u].op = "get_detector" /\ th[u].out = "FileNotFoundError"
         /\ th[u].safe = "yolov12l-face.pt"

\* the uploads the two views turn away before doing anything: no file part,
\* an empty file name, or an extension the view does not accept
RejectedUpload(req) ==
    \/ ~req.hasFile
    \/ req.filename = ""
    \/ req.endpoint = "detect_image" /\ req.filename \notin {"photo.jpg", "PHOTO.JPG"}
    \/ req.endpoint = "detect_video" /\ req.filename # "clip.mp4"

\* C27: an upload request with no file part, an empty file name or an
\* extension that is not accepted is answered 400 at once: it never enters
\* get_detector, and the step that answers it changes neither the cache,
\* the detectors loaded or invoked, nor the upload folder.
C27_RejectedUploadTouchesNothing ==
    /\ [](\A t \in Threads :
            th[t].op \in {"detect_image", "detect_video"} /\ RejectedUpload(th[t].req)
                => /\ th[t].status = 400
                   /\ th[t].pc = "idle"
                   /\ th[t].out = "none"
                   /\ th[t].inst = 0 /\ ~th[t].wrote)
    /\ [][(\E t \in Threads :
             /\ th[t].pc = "idle" /\ calls' # calls
             /\ th'[t].op \in {"detect_image", "detect_video"}
             /\ RejectedUpload(th'[t].req))
            => UNCHANGED <<detector_cache, loads, returnedFor, uploads, invoked,
                           videoRuns>>]_vars

\* an image sent to the video view is turned away while the cache and the
\* upload folder hold what earlier requests left
C27_Witness ==
    /\ uploads # {}
    /\ \E k \in CacheKeys : detector_cache[k] # 0
    /\ \E t \in Threads :
         /\ th[t].op = "detect_video" /\ th[t].req.hasFile
         /\ th[t].req.filename = "photo.jpg"
         /\ th[t].status = 400

====
